---------------------------- MODULE Spec2Model ----------------------------
(***************************************************************************)
(* A model of scp-coghaz-maker: fractal.py (gradient, the three fractal    *)
(* generators) and coghaz.py (corrupt, PerlmanGreeneGenerator.generate).   *)
(*                                                                         *)
(* Four specifications share the module, one per part of the program:      *)
(*   SpecCorrupt    corrupt(src, offset, axis)                             *)
(*   SpecConstruct  the three generator constructors                       *)
(*   SpecGenerate   generate(height, width) of a constructed generator     *)
(*   SpecAgent      the random draws of PerlmanGreeneGenerator.generate    *)
(* A specification leaves the variables of the other parts at their idle   *)
(* values.                                                                 *)
(***************************************************************************)
EXTENDS Integers, Sequences, FiniteSets

VARIABLES
    \* corrupt: the arguments of the call and what the call produced
    src, offset, axis, result,
    \* constructors: the generator objects that exist, and the last call
    gens, lastCall,
    \* generate: the generator's fields, the arguments, the locals
    gen, height, width, castMode, pc, i, j, c, z, num_iterations, pix,
    \* generate: history of the finished pixels (coordinate evaluated,
    \* loop exit values, colour input), indexed like pix
    trace,
    \* PerlmanGreeneGenerator.generate: position and the integers drawn
    apc, pass, bound_limit, iter_limit, shift

corruptVars == <<src, offset, axis, result>>
ctorVars == <<gens, lastCall>>
genVars == <<gen, height, width, castMode, pc, i, j, c, z, num_iterations, pix, trace>>
agentVars == <<apc, pass, bound_limit, iter_limit, shift>>
vars == <<corruptVars, ctorVars, genVars, agentVars>>

Idle == "idle"
CorruptIdle == src = <<>> /\ offset = 0 /\ axis = Idle /\ result = <<>>
CtorIdle == gens = {} /\ lastCall = <<>>
GenIdle ==
    /\ gen = <<>> /\ height = 0 /\ width = 0 /\ castMode = Idle /\ pc = Idle
    /\ i = 0 /\ j = 0 /\ c = <<>> /\ z = <<>> /\ num_iterations = 0
    /\ pix = <<>> /\ trace = <<>>
AgentIdle == apc = Idle /\ pass = 0 /\ bound_limit = 0 /\ iter_limit = 0 /\ shift = 0

Max(a, b) == IF a >= b THEN a ELSE b
Min(a, b) == IF a <= b THEN a ELSE b

(***************************************************************************)
(* numpy int8: the dtype of every pixel buffer (np.zeros(..., np.int8)).   *)
(***************************************************************************)
Int8Min == -128
Int8Max == 127
\* an integer reduced into the int8 range, two's complement
WrapInt8(v) == ((v + 128) % 256) - 128
\* elementwise + of two int8 arrays stays int8 and wraps
AddInt8(a, b) == WrapInt8(a + b)

(***************************************************************************)
(* coghaz.py: corrupt                                                      *)
(***************************************************************************)
\* bounds of the buffers handed to corrupt
MaxSide == 3
\* the pixels an input buffer is built from
PixelSamples == { <<1, 2, 3>>, <<100, 27, -3>> }
ZeroPixel == <<0, 0, 0>>

Rows(buf) == Len(buf)
Cols(buf) == Len(buf[1])
Buffers ==
    UNION { [1..h -> [1..w -> PixelSamples]] : h \in 1..MaxSide, w \in 1..MaxSide }

\* how a call ended: still to run, returned a value, raised an error
Pending == [kind |-> "pending", value |-> <<>>]
Return(v) == [kind |-> "returned", value |-> v]
Raised(e) == [kind |-> "raised", value |-> <<e>>]

AddPixel(p, q) == [k \in 1..3 |-> AddInt8(p[k], q[k])]

\* a[:-offset] along axis 0 of an array of n rows: how many rows it selects
\* (-0 is 0 in Python, so [:-0] is [:0], the empty slice)
HeadCount(n, off) == IF off = 0 THEN 0 ELSE Max(0, n - off)
\* a[offset:] along axis 0: how many rows it selects
TailCount(n, off) == Max(0, n - off)
\* numpy assigns a source of s rows to a target of t rows when s = t or s = 1
CanAssign(t, s) == s = t \/ s = 1

\* offset_pix = zeros_like(src); offset_pix[:-offset] = src[offset:];
\* src + offset_pix.  Both slices cut axis 0, the rows.
ShiftRowsAndAdd(buf, off) ==
    LET n == Rows(buf)
        t == HeadCount(n, off)
        s == TailCount(n, off)
        offset_pix == [r \in 1..n |-> [cc \in 1..Cols(buf) |->
                         IF r <= t
                         THEN (IF s = t THEN buf[r + off][cc] ELSE buf[off + 1][cc])
                         ELSE ZeroPixel]]
    IN  IF ~CanAssign(t, s)
        THEN Raised("ValueError")
        ELSE Return([r \in 1..n |-> [cc \in 1..Cols(buf) |->
                 AddPixel(buf[r][cc], offset_pix[r][cc])]])

\* the 'x' branch: offset_pix[:][:-offset] = src[:][offset:].  a[:] is a view
\* of the whole array, so [:][:-offset] and [:][offset:] again cut the rows.
Corrupt(buf, off, ax) ==
    IF ax = "y" THEN ShiftRowsAndAdd(buf, off)
    ELSE IF ax = "x" THEN ShiftRowsAndAdd(buf, off)
    ELSE Return(<<>>)

CorruptInit ==
    /\ src \in Buffers
    /\ offset \in 0..(MaxSide + 1)
    /\ axis \in {"x", "y"}
    /\ result = Pending
    /\ CtorIdle /\ GenIdle /\ AgentIdle

CallCorrupt ==
    /\ result = Pending
    /\ result' = Corrupt(src, offset, axis)
    /\ UNCHANGED <<src, offset, axis, ctorVars, genVars, agentVars>>

CorruptNext == CallCorrupt
SpecCorrupt == CorruptInit /\ [][CorruptNext]_vars

Called == result.kind # "pending"
Returned == result.kind = "returned"
Dim(ax) == IF ax = "y" THEN Rows(src) ELSE Cols(src)

\* C1: for 0 < offset < the dimension of the chosen axis, corrupt returns a
\* buffer of the same shape equal to the input plus the input shifted by
\* offset along that axis only (rows for 'y', columns for 'x'), nothing
\* being added where the shifted index falls outside the buffer.
C1_ShiftAlongAxis ==
    (Called /\ 0 < offset /\ offset < Dim(axis)) =>
        /\ Returned
        /\ Rows(result.value) = Rows(src)
        /\ \A r \in 1..Rows(src) :
              /\ Len(result.value[r]) = Cols(src)
              /\ \A cc \in 1..Cols(src) : \A k \in 1..3 :
                    result.value[r][cc][k] =
                        IF axis = "y"
                        THEN (IF r + offset <= Rows(src)
                              THEN src[r][cc][k] + src[r + offset][cc][k]
                              ELSE src[r][cc][k])
                        ELSE (IF cc + offset <= Cols(src)
                              THEN src[r][cc][k] + src[r][cc + offset][k]
                              ELSE src[r][cc][k])

\* C2: corrupt(buffer, 0, axis) completes without an error and returns the
\* buffer with every element doubled.
C2_ZeroOffsetDoubles ==
    (Called /\ offset = 0) =>
        /\ Returned
        /\ \A r \in 1..Rows(src) : \A cc \in 1..Cols(src) : \A k \in 1..3 :
              result.value[r][cc][k] = 2 * src[r][cc][k]

\* C3: for offset >= the dimension of the chosen axis, corrupt raises no
\* error and returns a buffer elementwise equal to the input.
C3_LargeOffsetIdentity ==
    (Called /\ offset >= Dim(axis)) =>
        /\ Returned
        /\ result.value = src

(***************************************************************************)
(* fractal.py: the constructors of CustomFractal, MandelbrotFractal and    *)
(* JuliaFractal.  Each checks its arguments with three asserts and then    *)
(* stores them; a failed assert raises AssertionError out of __init__, so  *)
(* the caller gets no object.                                              *)
(***************************************************************************)
\* longest bounds tuple / colormap list handed to a constructor
MaxLen == 3
\* generator objects kept alive at a time
MaxGens == 1
\* a tuple of n values, a colormap of n control points
TupleOfLen(n) == [k \in 1..n |-> k - 1]
ColormapOfLen(n) == [k \in 1..n |-> <<k - 1, ZeroPixel>>]
BoundsArgs == { TupleOfLen(n) : n \in 0..MaxLen }
ColormapArgs == { ColormapOfLen(n) : n \in 0..MaxLen }

\* MandelbrotCheck with a fault: a colormap of one point is let through
MandelbrotCheckLoose(bounds_real, bounds_imag, colormap) ==
    IF Len(bounds_real) # 2 THEN "AssertionError"
    ELSE IF Len(bounds_imag) # 2 THEN "AssertionError"
    ELSE IF ~(Len(colormap) >= 1) THEN "AssertionError"
    ELSE "ok"

CustomCheck(bounds_x, bounds_y, colormap) ==
    IF Len(bounds_x) # 2 THEN "AssertionError"
    ELSE IF Len(bounds_y) # 2 THEN "AssertionError"
    ELSE IF ~(Len(colormap) >= 2) THEN "AssertionError"
    ELSE "ok"

MandelbrotCheck(bounds_real, bounds_imag, colormap) ==
    IF Len(bounds_real) # 2 THEN "AssertionError"
    ELSE IF Len(bounds_imag) # 2 THEN "AssertionError"
    ELSE IF ~(Len(colormap) >= 2) THEN "AssertionError"
    ELSE "ok"

JuliaCheck(bounds_real, bounds_imag, colormap) ==
    IF Len(bounds_real) # 2 THEN "AssertionError"
    ELSE IF Len(bounds_imag) # 2 THEN "AssertionError"
    ELSE IF ~(Len(colormap) >= 2) THEN "AssertionError"
    ELSE "ok"

Object(kind, b1, b2, cm) ==
    [kind |-> kind, bounds1 |-> b1, bounds2 |-> b2, colormap |-> cm]

\* a constructor call: the object exists afterwards only if no assert failed
Construct(kind, outcome, b1, b2, cm) ==
    /\ outcome = "ok" => Cardinality(gens \cup {Object(kind, b1, b2, cm)}) <= MaxGens
    /\ lastCall' = [op |-> "init", obj |-> Object(kind, b1, b2, cm), outcome |-> outcome]
    /\ gens' = IF outcome = "ok" THEN gens \cup {Object(kind, b1, b2, cm)} ELSE gens
    /\ UNCHANGED <<corruptVars, genVars, agentVars>>

CustomInit ==
    \E b1 \in BoundsArgs, b2 \in BoundsArgs, cm \in ColormapArgs :
        Construct("custom", CustomCheck(b1, b2, cm), b1, b2, cm)

MandelbrotInit ==
    \E b1 \in BoundsArgs, b2 \in BoundsArgs, cm \in ColormapArgs :
        Construct("mandelbrot", MandelbrotCheck(b1, b2, cm), b1, b2, cm)

JuliaInit ==
    \E b1 \in BoundsArgs, b2 \in BoundsArgs, cm \in ColormapArgs :
        Construct("julia", JuliaCheck(b1, b2, cm), b1, b2, cm)

\* generate is a method: it is called on an object that exists
CallGenerate ==
    \E g \in gens :
        /\ lastCall' = [op |-> "generate", obj |-> g, outcome |-> "ok"]
        /\ UNCHANGED <<gens, corruptVars, genVars, agentVars>>

ConstructInit ==
    /\ gens = {}
    /\ lastCall = [op |-> "none", obj |-> <<>>, outcome |-> "ok"]
    /\ CorruptIdle /\ GenIdle /\ AgentIdle

ConstructNext == CustomInit \/ MandelbrotInit \/ JuliaInit \/ CallGenerate
SpecConstruct == ConstructInit /\ [][ConstructNext]_vars

WellFormed(g) ==
    Len(g.bounds1) = 2 /\ Len(g.bounds2) = 2 /\ Len(g.colormap) >= 2

\* C4: a constructor of any of the three generators fails with a validation
\* error exactly when a bounds argument does not have two values or the
\* colormap has fewer than two points; a failed construction leaves no
\* object, so every object that exists, and every object generate is called
\* on, has two 2-value bounds and a colormap of at least two points.
C4_ConstructionValidates ==
    /\ \A g \in gens : WellFormed(g)
    /\ lastCall.op = "init" =>
          /\ lastCall.outcome = "AssertionError" <=> ~WellFormed(lastCall.obj)
          /\ lastCall.outcome = "ok" <=> lastCall.obj \in gens
    /\ lastCall.op = "generate" => WellFormed(lastCall.obj)

\* a construction with a 1-point colormap has just failed while a generator
\* built from valid arguments exists
C4_Witness ==
    /\ lastCall.op = "init"
    /\ lastCall.obj.kind = "mandelbrot"
    /\ lastCall.outcome = "AssertionError"
    /\ Len(lastCall.obj.bounds1) = 2 /\ Len(lastCall.obj.bounds2) = 2
    /\ Len(lastCall.obj.colormap) = 1
    /\ \E g \in gens : g.kind = "julia"

(***************************************************************************)
(* coghaz.py: PerlmanGreeneGenerator.generate.  Three passes (Mandelbrot,  *)
(* Mandelbrot, Julia); each draws its bounds, constructs a generator with  *)
(* a drawn bound_limit and iter_limit, renders, and corrupts the render    *)
(* by a drawn offset.  The float draws (random.uniform, random.random) and *)
(* the pixel buffers do not decide any integer drawn and are left out of   *)
(* the state; the generator's fields die with the render.                  *)
(***************************************************************************)
BoundLimitLo == 500
BoundLimitHi == 1000
IterLimitLo == 50
IterLimitHi == 100
ShiftLoY == 40
ShiftHiY == 70
ShiftLoX == 50
ShiftHiX == 100
Passes == 3

\* random.randint(a, b): an integer N with a <= N <= b, both ends included
RandInt(a, b) == a..b

\* ShiftDraws with a fault: pass 1 draws from the range of passes 2 and 3
ShiftDrawsCopied(p) == RandInt(ShiftLoX, ShiftHiX)

\* the offsets corrupt may be handed in pass p, and the axis it shifts
ShiftDraws(p) ==
    IF p = 1 THEN RandInt(ShiftLoY, ShiftHiY) ELSE RandInt(ShiftLoX, ShiftHiX)
ShiftAxis(p) == IF p = 1 THEN "y" ELSE "x"

AgentInit ==
    /\ apc = "bounds" /\ pass = 1
    /\ bound_limit = 0 /\ iter_limit = 0 /\ shift = 0
    /\ CorruptIdle /\ CtorIdle /\ GenIdle

\* radians, real_bound, real_size, imag_bound, imag_size
DrawBounds ==
    /\ apc = "bounds"
    /\ apc' = "bound_limit"
    /\ shift' = 0
    /\ UNCHANGED <<pass, bound_limit, iter_limit, corruptVars, ctorVars, genVars>>

DrawBoundLimit ==
    /\ apc = "bound_limit"
    /\ bound_limit' \in RandInt(BoundLimitLo, BoundLimitHi)
    /\ apc' = "iter_limit"
    /\ UNCHANGED <<pass, iter_limit, shift, corruptVars, ctorVars, genVars>>

DrawIterLimit ==
    /\ apc = "iter_limit"
    /\ iter_limit' \in RandInt(IterLimitLo, IterLimitHi)
    /\ apc' = "render"
    /\ UNCHANGED <<pass, bound_limit, shift, corruptVars, ctorVars, genVars>>

\* the colormap draws, the constructor and generate(height, width)
Render ==
    /\ apc = "render"
    /\ apc' = "corrupt"
    /\ bound_limit' = 0 /\ iter_limit' = 0
    /\ UNCHANGED <<pass, shift, corruptVars, ctorVars, genVars>>

\* pix = corrupt(pix, random.randint(...), axis)
CorruptPass ==
    /\ apc = "corrupt"
    /\ shift' \in ShiftDraws(pass)
    /\ apc' = "corrupted"
    /\ UNCHANGED <<pass, bound_limit, iter_limit, corruptVars, ctorVars, genVars>>

NextPass ==
    /\ apc = "corrupted" /\ pass < Passes
    /\ pass' = pass + 1
    /\ apc' = "bounds"
    /\ UNCHANGED <<bound_limit, iter_limit, shift, corruptVars, ctorVars, genVars>>

\* the sum of the three buffers, the inversion, the text, img.save
Compose ==
    /\ apc = "corrupted" /\ pass = Passes
    /\ apc' = "done"
    /\ UNCHANGED <<pass, bound_limit, iter_limit, shift, corruptVars, ctorVars, genVars>>

AgentNext ==
    \/ DrawBounds \/ DrawBoundLimit \/ DrawIterLimit \/ Render
    \/ CorruptPass \/ NextPass \/ Compose
SpecAgent == AgentInit /\ [][AgentNext]_vars

BoundLimitDrawn == apc \in {"iter_limit", "render"}
IterLimitDrawn == apc = "render"
ShiftDrawn == apc = "corrupted"

\* C10: in every pass the drawn integers lie in half-open ranges:
\* 500 <= bound_limit < 1000, 50 <= iter_limit < 100, 40 <= offset < 70 in
\* pass 1 and 50 <= offset < 100 in passes 2 and 3; the upper end of a range
\* is never drawn.
C10_HalfOpenRanges ==
    /\ BoundLimitDrawn => (500 <= bound_limit /\ bound_limit < 1000)
    /\ IterLimitDrawn => (50 <= iter_limit /\ iter_limit < 100)
    /\ (ShiftDrawn /\ pass = 1) => (40 <= shift /\ shift < 70)
    /\ (ShiftDrawn /\ pass \in {2, 3}) => (50 <= shift /\ shift < 100)

\* C10 as amended: the ranges are closed, the upper end included:
\* 500 <= bound_limit <= 1000, 50 <= iter_limit <= 100, 40 <= offset <= 70
\* in pass 1 (the 'y' shift of the first Mandelbrot) and 50 <= offset <= 100
\* in passes 2 and 3 (the 'x' shifts of the second Mandelbrot and the Julia).
C10_ClosedRanges ==
    /\ BoundLimitDrawn => (500 <= bound_limit /\ bound_limit <= 1000)
    /\ IterLimitDrawn => (50 <= iter_limit /\ iter_limit <= 100)
    /\ (ShiftDrawn /\ pass = 1) => (ShiftAxis(pass) = "y" /\ 40 <= shift /\ shift <= 70)
    /\ (ShiftDrawn /\ pass \in {2, 3}) =>
          (ShiftAxis(pass) = "x" /\ 50 <= shift /\ shift <= 100)
    /\ pass \in 1..3

\* the third pass has drawn the upper end of its offset range
C10_Witness == ShiftDrawn /\ pass = 3 /\ shift = 100

(***************************************************************************)
(* fractal.py: gradient.  Reals are fixed-point numbers, Resolution units  *)
(* to 1.0; a colormap location is a multiple of 1/LocDen and a colormap    *)
(* colour channel a multiple of 1/255 (the defaults of the source are      *)
(* k/255).  math.exp has no integer form: ExpNeg is the rational           *)
(* 1 / (1 + t + t^2/2), exact at t = 0, positive and decreasing in t.      *)
(***************************************************************************)
Resolution == 1000
LocDen == 2
ChannelMax == 255

ColormapSamples ==
    { << <<0, <<0, 7, 100>>>>, <<1, <<237, 255, 255>>>>, <<2, <<255, 170, 0>>>> >>,
      << <<0, <<0, 0, 0>>>>, <<2, <<0, 2, 0>>>> >> }

\* exp(-tn/td) in fixed point
ExpNeg(tn, td) ==
    (2 * td * td * Resolution) \div (2 * td * td + 2 * tn * td + tn * tn)

\* gaussian(x, a, b, c) with x = xn/xd, a = a255/255, b = loc/LocDen * width,
\* c = width / (spread * len(map)), width = 1, spread = 1, d = 0
Gaussian(xn, xd, a255, loc, len) ==
    LET dn == xn * LocDen - loc * xd
        tn == dn * dn * len * len
        td == 2 * xd * xd * LocDen * LocDen
    IN  (a255 * ExpNeg(tn, td)) \div ChannelMax

RECURSIVE SumGaussians(_, _, _, _, _)
SumGaussians(xn, xd, map, k, n) ==
    IF n = 0 THEN 0
    ELSE Gaussian(xn, xd, map[n][2][k], map[n][1], Len(map))
         + SumGaussians(xn, xd, map, k, n - 1)

\* gradient(x, 1, map): each channel min(1.0, sum over the control points)
Gradient(x, map) ==
    [k \in 1..3 |-> Min(Resolution, SumGaussians(x[1], x[2], map, k, Len(map)))]

(***************************************************************************)
(* fractal.py: generate(height, width) of the three generators.            *)
(* Coordinates are integers: the bounds handed in are such that the        *)
(* samples of np.linspace fall on integers, which keeps z <- z^2 + c       *)
(* exact.  A complex number is <<re, im>>.                                 *)
(***************************************************************************)
MaxDim == 3
MaxStep == 1
MaxBound == 2
MaxIter == 2
LoSamples == {-1, 0}
JuliaSamples == { <<-1, 0>>, <<0, 1>> }
FunctionSamples == {"checker", "half"}
\* what a build may make of a float -> int8 cast of a value outside int8
\* (undefined in C): the low byte, or the nearest int8
CastModes == {"wrap", "saturate"}

CAdd(a, b) == <<a[1] + b[1], a[2] + b[2]>>
CMul(a, b) == <<a[1] * b[1] - a[2] * b[2], a[1] * b[2] + a[2] * b[1]>>
\* abs(z) < limit
AbsLt(w, limit) == limit > 0 /\ w[1] * w[1] + w[2] * w[2] < limit * limit

\* np.linspace(start, stop, num)[k], k from 0: start + k * (stop - start) /
\* (num - 1); a single sample is start
Linspace(b, num, k) ==
    IF num = 1 THEN b[1] ELSE b[1] + (k * (b[2] - b[1])) \div (num - 1)

\* the user's function of a CustomFractal, returning the colour input as a
\* fraction <<numerator, denominator>>
ApplyFunction(f, x, y) ==
    IF f = "checker" THEN <<(x + y) % 2, 1>> ELSE <<1, 2>>

\* LoopCond with a fault: the iteration limit is tested with <=
LoopCondInclusive(w, n) ==
    AbsLt(w, gen.bound_limit) /\ n <= gen.iter_limit

\* LoopCond with a fault: the loop gives up one iteration early
LoopCondEarly(w, n) ==
    AbsLt(w, gen.bound_limit) /\ n < gen.iter_limit - 1

\* while abs(z) < self.bound_limit and num_iterations < self.iter_limit
LoopCond(w, n) ==
    AbsLt(w, gen.bound_limit) /\ n < gen.iter_limit

\* MandelbrotStart with a fault: the iteration starts at 0
MandelbrotStartZero(cc) == <<0, 0>>

\* z = c
MandelbrotStart(cc) == cc

\* z = z ** 2 + c
Step(w, cc) == CAdd(CMul(w, w), cc)

\* PixelIndex with a fault: the column first
PixelIndexSwapped(ii, jj) == <<ii, jj>>

\* pix[j][i]
PixelIndex(ii, jj) == <<jj, ii>>

\* int(v) stored in an int8 cell
CastInt8(v) ==
    IF Int8Min <= v /\ v <= Int8Max THEN v
    ELSE IF castMode = "wrap" THEN WrapInt8(v)
    ELSE IF v > Int8Max THEN Int8Max ELSE Int8Min

\* 255 * r, truncated
Scale255(r) == (ChannelMax * r) \div Resolution

\* pix[j][i] = (255 * r, 255 * g, 255 * b)
StoredPixel(rgb) == [k \in 1..3 |-> CastInt8(Scale255(rgb[k]))]

Cells == { <<jj, ii>> : jj \in 0..(height - 1), ii \in 0..(width - 1) }
NoTrace == [written |-> FALSE, coord |-> <<0, 0>>, n |-> 0, z |-> <<0, 0>>,
            colour |-> <<0, 1>>, rgb |-> ZeroPixel]

BoundsFor(lo, step, num) == <<lo, lo + step * Max(num - 1, 1)>>

Generators(h, w) ==
    LET BoundsReal == { BoundsFor(lo, st, w) : lo \in LoSamples, st \in 1..MaxStep }
        BoundsImag == { BoundsFor(lo, st, h) : lo \in LoSamples, st \in 1..MaxStep }
        Escape == [kind : {"mandelbrot"}, bounds_real : BoundsReal, bounds_imag : BoundsImag,
                   bound_limit : 1..MaxBound, iter_limit : 1..MaxIter,
                   colormap : ColormapSamples, c : {<<0, 0>>}, function : {"none"}]
        Julia == [kind : {"julia"}, bounds_real : BoundsReal, bounds_imag : BoundsImag,
                  bound_limit : 1..MaxBound, iter_limit : 1..MaxIter,
                  colormap : ColormapSamples, c : JuliaSamples, function : {"none"}]
        Custom == [kind : {"custom"}, bounds_real : BoundsReal, bounds_imag : BoundsImag,
                   bound_limit : {1}, iter_limit : {1},
                   colormap : ColormapSamples, c : {<<0, 0>>}, function : FunctionSamples]
    IN  Escape \cup Julia \cup Custom

\* generate is entered: pix = np.zeros((height, width, 3), np.int8)
GenerateInit ==
    /\ height \in 1..MaxDim /\ width \in 1..MaxDim
    /\ gen \in Generators(height, width)
    /\ castMode \in CastModes
    /\ pc = "pixel" /\ i = 0 /\ j = 0
    /\ c = <<0, 0>> /\ z = <<0, 0>> /\ num_iterations = 0
    /\ pix = [cell \in Cells |-> ZeroPixel]
    /\ trace = [cell \in Cells |-> NoTrace]
    /\ CorruptIdle /\ CtorIdle /\ AgentIdle

X(ii) == Linspace(gen.bounds_real, width, ii)
Y(jj) == Linspace(gen.bounds_imag, height, jj)

\* the inner loop (j over the rows) runs inside the outer one (i over the
\* columns); after the last pixel generate returns pix
Advance ==
    /\ j' = IF j + 1 < height THEN j + 1 ELSE 0
    /\ i' = IF j + 1 < height THEN i ELSE i + 1
    /\ pc' = IF j + 1 < height \/ i + 1 < width THEN "pixel" ELSE "return"

\* the gradient of the colour input goes into pix[j][i]
Store(colour, exitZ, exitN) ==
    LET rgb == Gradient(colour, gen.colormap)
    IN  /\ pix' = [pix EXCEPT ![PixelIndex(i, j)] = StoredPixel(rgb)]
        /\ trace' = [trace EXCEPT ![PixelIndex(i, j)] =
                        [written |-> TRUE, coord |-> <<X(i), Y(j)>>, n |-> exitN,
                         z |-> exitZ, colour |-> colour, rgb |-> rgb]]

\* MandelbrotFractal: c = complex(x, y); z = c; num_iterations = 0
MandelbrotPixel ==
    /\ pc = "pixel" /\ gen.kind = "mandelbrot"
    /\ c' = <<X(i), Y(j)>>
    /\ z' = MandelbrotStart(<<X(i), Y(j)>>)
    /\ num_iterations' = 0
    /\ pc' = "loop"
    /\ UNCHANGED <<gen, height, width, castMode, i, j, pix, trace>>
    /\ UNCHANGED <<corruptVars, ctorVars, agentVars>>

\* JuliaFractal: z = complex(x, y); num_iterations = 0; c is self.c
JuliaPixel ==
    /\ pc = "pixel" /\ gen.kind = "julia"
    /\ c' = gen.c
    /\ z' = <<X(i), Y(j)>>
    /\ num_iterations' = 0
    /\ pc' = "loop"
    /\ UNCHANGED <<gen, height, width, castMode, i, j, pix, trace>>
    /\ UNCHANGED <<corruptVars, ctorVars, agentVars>>

\* one pass through the body of the while loop
Iterate ==
    /\ pc = "loop" /\ LoopCond(z, num_iterations)
    /\ z' = Step(z, c)
    /\ num_iterations' = num_iterations + 1
    /\ UNCHANGED <<gen, height, width, castMode, pc, i, j, c, pix, trace>>
    /\ UNCHANGED <<corruptVars, ctorVars, agentVars>>

\* the loop has ended: gradient(num_iterations / self.iter_limit, 1, colormap)
SetPixel ==
    /\ pc = "loop" /\ ~LoopCond(z, num_iterations)
    /\ Store(<<num_iterations, gen.iter_limit>>, z, num_iterations)
    /\ Advance
    /\ UNCHANGED <<gen, height, width, castMode, c, z, num_iterations>>
    /\ UNCHANGED <<corruptVars, ctorVars, agentVars>>

\* CustomFractal: gradient(self.function(x, y), 1, colormap)
CustomPixel ==
    /\ pc = "pixel" /\ gen.kind = "custom"
    /\ Store(ApplyFunction(gen.function, X(i), Y(j)), <<0, 0>>, 0)
    /\ Advance
    /\ UNCHANGED <<gen, height, width, castMode, c, z, num_iterations>>
    /\ UNCHANGED <<corruptVars, ctorVars, agentVars>>

ReturnPix ==
    /\ pc = "return"
    /\ pc' = "returned"
    /\ UNCHANGED <<gen, height, width, castMode, i, j, c, z, num_iterations, pix, trace>>
    /\ UNCHANGED <<corruptVars, ctorVars, agentVars>>

GenerateNext ==
    \/ MandelbrotPixel \/ JuliaPixel \/ Iterate \/ SetPixel
    \/ CustomPixel \/ ReturnPix
SpecGenerate == GenerateInit /\ [][GenerateNext]_vars

Written == { cell \in Cells : trace[cell].written }

Escaping == gen.kind \in {"mandelbrot", "julia"}
\* |w| >= bound_limit
Outside(w) == w[1] * w[1] + w[2] * w[2] >= gen.bound_limit * gen.bound_limit

\* C5: in MandelbrotFractal.generate, for the coordinate c = 0+0i the loop
\* test never fails on the magnitude, the iteration count ends equal to
\* iter_limit, and the colour input handed to the gradient is exactly 1.0
\* (numerator equal to denominator).
C5_OriginNeverEscapes ==
    gen.kind = "mandelbrot" =>
        /\ (pc = "loop" /\ c = <<0, 0>>) => ~Outside(z)
        /\ \A cell \in Written :
              trace[cell].coord = <<0, 0>> =>
                  /\ trace[cell].n = gen.iter_limit
                  /\ trace[cell].colour[1] = trace[cell].colour[2]
                  /\ trace[cell].colour[2] > 0

\* the pixel of 0+0i has been set after more than one iteration
C5_Witness ==
    /\ gen.kind = "mandelbrot" /\ gen.iter_limit > 1
    /\ \E cell \in Written : trace[cell].coord = <<0, 0>>

\* C6: in MandelbrotFractal.generate, a coordinate with |c| >= bound_limit
\* gets the iteration count 1 and the colour input 1/iter_limit.
C6_ImmediateEscapeCountsOne ==
    gen.kind = "mandelbrot" =>
        \A cell \in Written :
            Outside(trace[cell].coord) =>
                /\ trace[cell].n = 1
                /\ trace[cell].colour = <<1, gen.iter_limit>>

\* C6 as amended: a coordinate with |c| >= bound_limit gets the iteration
\* count 0 (the loop body never runs, z starting at c) and the colour input
\* 0/iter_limit = 0.
C6_ImmediateEscapeCountsZero ==
    gen.kind = "mandelbrot" =>
        \A cell \in Written :
            Outside(trace[cell].coord) =>
                /\ trace[cell].n = 0
                /\ trace[cell].colour = <<0, gen.iter_limit>>

\* the pixel of a coordinate outside the bound has been set
C6_Witness ==
    /\ gen.kind = "mandelbrot"
    /\ \E cell \in Written : Outside(trace[cell].coord)

\* v is sample k (from 0) of num evenly spaced samples of the bounds b
EvenlySpaced(b, num, k, v) == v * (num - 1) = b[1] * (num - 1) + k * (b[2] - b[1])

\* C7: for height > 1 and width > 1 the pixel at [j][i] is computed from
\* (x_i, y_j), the i-th of width evenly spaced samples of the x bounds and
\* the j-th of height evenly spaced samples of the y bounds; when generate
\* returns every pixel has been computed, [0][0] from (x min, y min) and
\* [height-1][width-1] from (x max, y max).
C7_PixelCoordinates ==
    (height > 1 /\ width > 1) =>
        /\ \A cell \in Written :
              /\ EvenlySpaced(gen.bounds_real, width, cell[2], trace[cell].coord[1])
              /\ EvenlySpaced(gen.bounds_imag, height, cell[1], trace[cell].coord[2])
        /\ pc = "returned" =>
              /\ Written = Cells
              /\ trace[<<0, 0>>].coord = <<gen.bounds_real[1], gen.bounds_imag[1]>>
              /\ trace[<<height - 1, width - 1>>].coord =
                    <<gen.bounds_real[2], gen.bounds_imag[2]>>

\* generate has returned an image that is not square
C7_Witness == pc = "returned" /\ height = 2 /\ width = 3

\* C8: every channel of every pixel set by generate is an integer in
\* [0, 255] equal to the truncation of 255 times the gradient's channel
\* value; a channel value above 127/255 is stored as a value above 127.
C8_ChannelsUnsigned ==
    \A cell \in Written : \A k \in 1..3 :
        /\ pix[cell][k] \in 0..255
        /\ pix[cell][k] = (255 * trace[cell].rgb[k]) \div Resolution
        /\ 255 * trace[cell].rgb[k] > 127 * Resolution => pix[cell][k] > 127

\* C9: for every pixel of the Mandelbrot and Julia generators the loop body
\* runs at most iter_limit times: the count stays within 0..iter_limit, a
\* loop that ended with count < iter_limit ended on |z| >= bound_limit, and
\* the colour input count / iter_limit lies in [0, 1].
C9_BoundedEscapeLoop ==
    Escaping =>
        /\ 0 <= num_iterations /\ num_iterations <= gen.iter_limit
        /\ \A cell \in Written :
              /\ 0 <= trace[cell].n /\ trace[cell].n <= gen.iter_limit
              /\ trace[cell].n < gen.iter_limit => Outside(trace[cell].z)
              /\ trace[cell].colour = <<trace[cell].n, gen.iter_limit>>
              /\ 0 <= trace[cell].colour[1]
              /\ trace[cell].colour[1] <= trace[cell].colour[2]

\* a Julia pixel left the loop on the magnitude test after at least one
\* iteration and before the iteration limit
C9_Witness ==
    /\ gen.kind = "julia"
    /\ \E cell \in Written :
          /\ 0 < trace[cell].n /\ trace[cell].n < gen.iter_limit
          /\ Outside(trace[cell].z)

=============================================================================
